---------------------------- MODULE Spec2Model ----------------------------
(***************************************************************************)
(* A model of prep_MHD.py: the derivation of the FLASH run parameters from *)
(* the command line arguments, the line by line rewrite of the parameter   *)
(* file, and the file transaction of update_flash_par and main.            *)
(*                                                                         *)
(* Text is modelled as sequences of one-character strings, files as a map  *)
(* from path to content and mode.  Floats are modelled as exact rationals  *)
(* (plus inf and nan); the arguments are drawn from values whose derived   *)
(* quantities are finite decimals, for which the exact decimal rendering   *)
(* is the float's str().                                                   *)
(***************************************************************************)
EXTENDS Integers, Sequences, FiniteSets, TLC

VARIABLES
    args,       \* the parsed command line (module-level dict `args`)
    fs,         \* the file system: path -> NoFile or [content, mode]
    fs0,        \* the file system when the first invocation started
    self,       \* the UpdateFlashParameterFile object, NoObject before __init__
    pos,        \* read position of `f` in the source file (chars consumed)
    pc,         \* the statement main / update_flash_par is at
    run,        \* how many invocations have started
    prev        \* the command line of the previous invocation, NoArgs at first

vars == <<args, fs, fs0, self, pos, pc, run, prev>>

-----------------------------------------------------------------------------
(* Bounds of the model *)

\* the longest parameter file, in lines
MaxLines == 2

\* the invocations of the tool on the same file (SpecRerun only)
MaxRuns == 2

-----------------------------------------------------------------------------
(* Python str operations *)

Min(S) == CHOOSE x \in S : \A y \in S : x <= y

\* s[a:b] for 0 <= a, with b clamped to len(s)
Slice(s, a, b) == SubSeq(s, a + 1, IF b > Len(s) THEN Len(s) ELSE b)

\* s.find(sub): the lowest 0-based index where sub occurs in s, else -1
find(s, sub) ==
    LET hits == { i \in 0..(Len(s) - Len(sub)) :
                      SubSeq(s, i + 1, i + Len(sub)) = sub }
    IN  IF hits = {} THEN -1 ELSE Min(hits)

\* Iteration over a file opened with open(name, 'r'): the line that starts
\* after `p` consumed characters.  The file is in text mode with universal
\* newlines, so a line ends at "\n", "\r\n" or "\r" and each of them is
\* handed to the program as "\n"; `len` is what was consumed of the file.
ReadLine(content, p) ==
    LET ends == { i \in (p + 1)..Len(content) : content[i] \in {"\n", "\r"} }
    IN  IF ends = {}
        THEN [text |-> SubSeq(content, p + 1, Len(content)),
              len  |-> Len(content) - p]
        ELSE LET i    == Min(ends)
                 crlf == /\ content[i] = "\r"
                         /\ i < Len(content)
                         /\ content[i + 1] = "\n"
             IN  [text |-> SubSeq(content, p + 1, i - 1) \o <<"\n">>,
                  len  |-> (IF crlf THEN i + 1 ELSE i) - p]

RECURSIVE LinesFrom(_, _)
LinesFrom(content, p) ==
    IF p >= Len(content) THEN <<>>
    ELSE LET l == ReadLine(content, p)
         IN  <<l.text>> \o LinesFrom(content, p + l.len)

\* list(f): every line of a file as the program reads it, in order
SplitLines(content) == LinesFrom(content, 0)

RECURSIVE Concat(_)
Concat(ls) == IF ls = <<>> THEN <<>> ELSE Head(ls) \o Concat(Tail(ls))

-----------------------------------------------------------------------------
(* Floats: [k |-> "num", n, d] is n/d in lowest terms, d > 0 *)

RECURSIVE Gcd(_, _)
Gcd(a, b) == IF b = 0 THEN a ELSE Gcd(b, a % b)

Abs(x) == IF x < 0 THEN -x ELSE x

Rat(n, d) ==
    LET g == Gcd(Abs(n), Abs(d))
        s == IF d < 0 THEN -1 ELSE 1
    IN  [k |-> "num", n |-> (s * n) \div g, d |-> (s * d) \div g]

Inf == [k |-> "inf"]
NaN == [k |-> "nan"]
ZeroDivisionError == [k |-> "ZeroDivisionError"]

IsNum(x) == x.k = "num"

RatMul(a, b) == Rat(a.n * b.n, a.d * b.d)

\* a / b on Python floats: raises when b is 0.0
PyDiv(a, b) ==
    IF b.n = 0 THEN ZeroDivisionError ELSE Rat(a.n * b.d, a.d * b.n)

\* a / b on numpy float64: warns and yields inf or nan when b is 0.0
NpDiv(a, b) ==
    IF b.n # 0 THEN Rat(a.n * b.d, a.d * b.n)
    ELSE IF a.n = 0 THEN NaN
    ELSE Inf

-----------------------------------------------------------------------------
(* str() of a float, as an f-string renders it *)

DigitChars == <<"0", "1", "2", "3", "4", "5", "6", "7", "8", "9">>

RECURSIVE Digits(_)
Digits(i) ==
    IF i < 10 THEN <<DigitChars[i + 1]>>
    ELSE Digits(i \div 10) \o <<DigitChars[(i % 10) + 1]>>

RECURSIVE Pow10(_)
Pow10(e) == IF e = 0 THEN 1 ELSE 10 * Pow10(e - 1)

\* the number of decimal places of n/d (d a product of 2s and 5s)
RECURSIVE Places(_, _)
Places(d, e) == IF Pow10(e) % d = 0 THEN e ELSE Places(d, e + 1)

RECURSIVE ZeroPad(_, _)
ZeroPad(ds, w) == IF Len(ds) >= w THEN ds ELSE ZeroPad(<<"0">> \o ds, w)

FloatStr(x) ==
    IF x.k = "inf" THEN <<"i", "n", "f">>
    ELSE IF x.k = "nan" THEN <<"n", "a", "n">>
    ELSE
    LET e    == Places(x.d, 0)
        m    == Abs(x.n) * (Pow10(e) \div x.d)
        sign == IF x.n < 0 THEN <<"-">> ELSE <<>>
        sig  == Digits(m)
        exp  == Len(sig) - 1 - e
    IN  IF m # 0 /\ exp < -4
        THEN \* repr switches to scientific notation below 1e-04
             sign \o <<sig[1]>>
                  \o (IF Len(sig) > 1 THEN <<".">> \o Tail(sig) ELSE <<>>)
                  \o <<"e", "-">> \o ZeroPad(Digits(-exp), 2)
        ELSE sign \o Digits(m \div Pow10(e)) \o <<".">>
                  \o (IF e = 0 THEN <<"0">>
                      ELSE ZeroPad(Digits(m % Pow10(e)), e))

-----------------------------------------------------------------------------
(* The keys the replacers look for *)

K_MagField_z ==
    <<"M", "a", "g", "F", "i", "e", "l", "d", "_", "z">>

K_st_MPzBmeanTarget ==
    <<"s", "t", "_", "M", "P", "z", "B", "m", "e", "a", "n", "T", "a", "r", "g", "e", "t">>

K_movie_dt_dump ==
    <<"m", "o", "v", "i", "e", "_", "d", "t", "_", "d", "u", "m", "p">>

K_checkpointFileIntervalTime ==
    <<"c", "h", "e", "c", "k", "p", "o", "i", "n", "t", "F", "i", "l", "e", "I", "n", "t", "e", "r", "v", "a", "l", "T", "i", "m", "e">>

K_plotFileIntervalTime ==
    <<"p", "l", "o", "t", "F", "i", "l", "e", "I", "n", "t", "e", "r", "v", "a", "l", "T", "i", "m", "e">>

K_particleFileIntervalTime ==
    <<"p", "a", "r", "t", "i", "c", "l", "e", "F", "i", "l", "e", "I", "n", "t", "e", "r", "v", "a", "l", "T", "i", "m", "e">>

K_dtmax ==
    <<"d", "t", "m", "a", "x">>

K_tmax ==
    <<"t", "m", "a", "x">>

K_st_infilename ==
    <<"s", "t", "_", "i", "n", "f", "i", "l", "e", "n", "a", "m", "e">>

-----------------------------------------------------------------------------
(* The object and its derived quantities *)

None == [k |-> "None"]
Str(s) == [k |-> "str", s |-> s]
EmptyList == [k |-> "list"]
NoObject == [k |-> "NoObject"]
NoArgs == [k |-> "NoArgs"]

rho_0 == 1

c_s == 1

\* np.sqrt(rho_0*np.pi) for rho_0 = 1, carried to seven decimal places
SqrtRhoPi == Rat(17724539 * rho_0, 10000000)

\* UpdateFlashParameterFile.__init__
NewObject(a) ==
    [ mach                       |-> a.mach,
      mach_alfven                |-> a.mach_alfven,
      driving_scale              |-> a.driving_scale,
      dumps_per_turnover         |-> a.dumps_per_turnover,
      total_turn_overs           |-> a.total_turn_overs,
      file_name                  |-> a.file_name,
      forcing_file               |-> a.forcing_file,
      B0                         |-> EmptyList,
      tmax                       |-> EmptyList,
      checkpointFileIntervalTime |-> EmptyList,
      plotFileIntervalTime       |-> EmptyList,
      movie_dt_dump              |-> EmptyList,
      particleFileIntervalTime   |-> EmptyList,
      dtmax                      |-> EmptyList ]

\* self.B0 = 2*c_s*np.sqrt(rho_0*np.pi) * self.mach / self.mach_alfven
compute_B0(s) ==
    [s EXCEPT !.B0 =
        NpDiv(RatMul(RatMul(Rat(2 * c_s, 1), SqrtRhoPi), s.mach),
              s.mach_alfven)]

\* compute_turnover_time_parameters with total_turn_overs left out of the
\* checkpoint interval
compute_turnover_time_parameters_no_total(s) ==
    LET tmax == PyDiv(s.total_turn_overs, RatMul(s.driving_scale, s.mach))
    IN  IF ~IsNum(tmax) THEN [self |-> s, raised |-> TRUE]
        ELSE
        LET s1  == [s EXCEPT !.tmax = tmax]
            chk == PyDiv(tmax, s.dumps_per_turnover)
        IN  IF ~IsNum(chk) THEN [self |-> s1, raised |-> TRUE]
            ELSE
            LET movie == PyDiv(chk, Rat(10, 1))
            IN  [ self |-> [s1 EXCEPT
                                !.checkpointFileIntervalTime = chk,
                                !.plotFileIntervalTime       = chk,
                                !.movie_dt_dump              = movie,
                                !.particleFileIntervalTime   = movie,
                                !.dtmax                      = PyDiv(movie, Rat(2, 1))],
                  raised |-> FALSE ]

\* The assignments of compute_turnover_time_parameters in order; a division
\* by zero raises and leaves the later fields as they were.
compute_turnover_time_parameters(s) ==
    LET tmax == PyDiv(s.total_turn_overs, RatMul(s.driving_scale, s.mach))
    IN  IF ~IsNum(tmax) THEN [self |-> s, raised |-> TRUE]
        ELSE
        LET s1  == [s EXCEPT !.tmax = tmax]
            chk == PyDiv(tmax, RatMul(s.total_turn_overs, s.dumps_per_turnover))
        IN  IF ~IsNum(chk) THEN [self |-> s1, raised |-> TRUE]
            ELSE
            LET plot     == chk
                movie    == PyDiv(plot, Rat(10, 1))
                particle == movie
                dtmax    == PyDiv(movie, Rat(2, 1))
            IN  [ self |-> [s1 EXCEPT
                                !.checkpointFileIntervalTime = chk,
                                !.plotFileIntervalTime       = plot,
                                !.movie_dt_dump              = movie,
                                !.particleFileIntervalTime   = particle,
                                !.dtmax                      = dtmax],
                  raised |-> FALSE ]

-----------------------------------------------------------------------------
(* The line replacers *)

\* line[0:i+1] + f" {value}\n" with i = line.find("=")
Substitute(line, text) ==
    LET i == find(line, <<"=">>)
    IN  Slice(line, 0, i + 1) \o <<" ">> \o text \o <<"\n">>

replace_magnetic_field(s, line) ==
    LET s1 == compute_B0(s)
    IN  [ self |-> s1,
          line |-> IF \/ find(line, K_MagField_z) = 0
                      \/ find(line, K_st_MPzBmeanTarget) = 0
                   THEN Substitute(line, FloatStr(s1.B0))
                   ELSE line ]

\* f"{self.forcing_file}"
ForcingStr(ff) == IF ff = None THEN <<"N", "o", "n", "e">> ELSE ff.s

replace_forcing_file(s, line) ==
    IF find(line, K_st_infilename) = 0
    THEN Substitute(line, ForcingStr(s.forcing_file))
    ELSE line

\* replace_turnover_times with tmax looked for anywhere in the line, and
\* before dtmax
replace_turnover_times_substring(s, line) ==
    LET c  == compute_turnover_time_parameters(s)
        s1 == c.self
    IN  IF c.raised THEN [self |-> s1, raised |-> TRUE, line |-> line]
        ELSE
        [ self   |-> s1,
          raised |-> FALSE,
          line   |->
            IF find(line, K_movie_dt_dump) = 0
            THEN Substitute(line, FloatStr(s1.movie_dt_dump))
            ELSE IF find(line, K_checkpointFileIntervalTime) = 0
            THEN Substitute(line, FloatStr(s1.checkpointFileIntervalTime))
            ELSE IF find(line, K_plotFileIntervalTime) = 0
            THEN Substitute(line, FloatStr(s1.plotFileIntervalTime))
            ELSE IF find(line, K_particleFileIntervalTime) = 0
            THEN Substitute(line, FloatStr(s1.particleFileIntervalTime))
            ELSE IF find(line, K_tmax) >= 0
            THEN Substitute(line, FloatStr(s1.tmax))
            ELSE IF find(line, K_dtmax) = 0
            THEN Substitute(line, FloatStr(s1.dtmax))
            ELSE line ]

replace_turnover_times(s, line) ==
    LET c  == compute_turnover_time_parameters(s)
        s1 == c.self
    IN  IF c.raised THEN [self |-> s1, raised |-> TRUE, line |-> line]
        ELSE
        [ self   |-> s1,
          raised |-> FALSE,
          line   |->
            IF find(line, K_movie_dt_dump) = 0
            THEN Substitute(line, FloatStr(s1.movie_dt_dump))
            ELSE IF find(line, K_checkpointFileIntervalTime) = 0
            THEN Substitute(line, FloatStr(s1.checkpointFileIntervalTime))
            ELSE IF find(line, K_plotFileIntervalTime) = 0
            THEN Substitute(line, FloatStr(s1.plotFileIntervalTime))
            ELSE IF find(line, K_particleFileIntervalTime) = 0
            THEN Substitute(line, FloatStr(s1.particleFileIntervalTime))
            ELSE IF find(line, K_dtmax) = 0
            THEN Substitute(line, FloatStr(s1.dtmax))
            ELSE IF find(line, K_tmax) = 0
            THEN Substitute(line, FloatStr(s1.tmax))
            ELSE line ]

\* The body of the loop of update_flash_par, up to the write
RewriteLine(s, line) ==
    LET m == replace_magnetic_field(s, line)
        t == replace_turnover_times(m.self, m.line)
    IN  IF t.raised THEN t
        ELSE [ self   |-> t.self,
               raised |-> FALSE,
               line   |-> IF t.self.forcing_file # None
                          THEN replace_forcing_file(t.self, t.line)
                          ELSE t.line ]

-----------------------------------------------------------------------------
(* The file system *)

NoFile == [k |-> "absent"]
File(content, mode) == [k |-> "file", content |-> content, mode |-> mode]

BackupPath == "flash.par_restart_backup"
TempPath == "/tmp/tmpfile"

Paths ==
    {"flash.par", "other.par", BackupPath, "other.par_restart_backup", TempPath}

\* rwxrwxrwx digits to a mode
Octal(u, g, o) == u * 64 + g * 8 + o

\* the literal handed to os.chmod
ChmodArg == 644

-----------------------------------------------------------------------------
(* The inputs: command lines and parameter files *)

ForcingName == <<"f", ".", "d", "a", "t">>

\* -d, -n and -T at their argparse defaults
ArgSets ==
    [ file_name          : {"flash.par", "other.par"},
      mach               : {Rat(0, 1), Rat(1, 1), Rat(10, 1)},
      mach_alfven        : {Rat(0, 1), Rat(2, 1)},
      driving_scale      : {Rat(2, 1)},
      dumps_per_turnover : {Rat(10, 1)},
      total_turn_overs   : {Rat(10, 1)},
      forcing_file       : {None, Str(ForcingName)} ]

\* the command lines of the derivation alone
ComputeArgSets ==
    [ file_name          : {"flash.par"},
      mach               : {Rat(0, 1), Rat(1, 2), Rat(2, 1), Rat(10, 1)},
      mach_alfven        : {Rat(0, 1), Rat(1, 1)},
      driving_scale      : {Rat(1, 2), Rat(2, 1), Rat(3, 1)},
      dumps_per_turnover : {Rat(1, 1), Rat(4, 1), Rat(10, 1)},
      total_turn_overs   : {Rat(1, 1), Rat(10, 1)},
      forcing_file       : {None} ]

L_other ==
    <<"n", "b", "l", "o", "c", "k", "x", " ", "=", " ", "1", "\n">>

L_crlf ==
    <<"n", "b", "l", "o", "c", "k", "x", " ", "=", " ", "2", "\r", "\n">>

L_comment ==
    <<"#", "t", "m", "a", "x", " ", "=", " ", "1", "\n">>

L_indented ==
    <<" ", "d", "t", "m", "a", "x", " ", "=", " ", "1", "\n">>

L_MagField_z ==
    <<"M", "a", "g", "F", "i", "e", "l", "d", "_", "z", " ", "=", " ", "0", "\n">>

L_st_MPzBmeanTarget ==
    <<"s", "t", "_", "M", "P", "z", "B", "m", "e", "a", "n", "T", "a", "r", "g", "e", "t", " ", "=", " ", "0", "\n">>

L_movie_dt_dump ==
    <<"m", "o", "v", "i", "e", "_", "d", "t", "_", "d", "u", "m", "p", " ", "=", " ", "1", "\n">>

L_checkpoint ==
    <<"c", "h", "e", "c", "k", "p", "o", "i", "n", "t", "F", "i", "l", "e", "I", "n", "t", "e", "r", "v", "a", "l", "T", "i", "m", "e", " ", "=", " ", "1", "\n">>

L_plot ==
    <<"p", "l", "o", "t", "F", "i", "l", "e", "I", "n", "t", "e", "r", "v", "a", "l", "T", "i", "m", "e", " ", "=", " ", "1", "\n">>

L_particle ==
    <<"p", "a", "r", "t", "i", "c", "l", "e", "F", "i", "l", "e", "I", "n", "t", "e", "r", "v", "a", "l", "T", "i", "m", "e", " ", "=", " ", "1", "\n">>

L_dtmax ==
    <<"d", "t", "m", "a", "x", "=", "1", " ", "#", " ", "=", " ", "x", "\n">>

L_tmax ==
    <<"t", "m", "a", "x", " ", "=", " ", "9", "9", "9", ".", "0", "\n">>

L_st_infilename ==
    <<"s", "t", "_", "i", "n", "f", "i", "l", "e", "n", "a", "m", "e", " ", "=", " ", "x", "\n">>

L_noeq ==
    <<"t", "m", "a", "x", " ", "9", "\n">>

L_longer ==
    <<"t", "m", "a", "x", "f", "o", "o", " ", "=", " ", "1", "\n">>

\* the line shapes a parameter file is made of, each with its line ending
LineSet ==
    { L_other,
      L_crlf,
      L_comment,
      L_indented,
      L_MagField_z,
      L_st_MPzBmeanTarget,
      L_movie_dt_dump,
      L_checkpoint,
      L_plot,
      L_particle,
      L_dtmax,
      L_tmax,
      L_st_infilename,
      L_noeq,
      L_longer }

\* a file's last line may lack its newline
Chop(l) == SubSeq(l, 1, Len(l) - 1)

LastLineSet == LineSet \cup {Chop(L_tmax), Chop(L_other)}

FileSet ==
    UNION { { Concat(ls \o <<last>>) : ls \in [1..(n - 1) -> LineSet],
                                       last \in LastLineSet }
            : n \in 1..MaxLines } \cup {<<>>}

-----------------------------------------------------------------------------
(* main and update_flash_par, statement by statement *)

Init ==
    /\ args \in ArgSets
    /\ \E target \in {NoFile} \cup { File(c, Octal(6, 4, 4)) : c \in FileSet } :
          fs = [p \in Paths |-> IF p = args.file_name THEN target ELSE NoFile]
    /\ fs0 = fs
    /\ self = NoObject
    /\ pos = 0
    /\ pc = "copyfile"
    /\ run = 1
    /\ prev = NoArgs

\* copyfile(file_name, "flash.par_restart_backup")
Copyfile ==
    /\ pc = "copyfile"
    /\ IF fs[args.file_name] = NoFile
       THEN /\ pc' = "failed"          \* FileNotFoundError
            /\ fs' = fs
       ELSE /\ pc' = "init"
            /\ fs' = [fs EXCEPT ![BackupPath] =
                        File(fs[args.file_name].content,
                             IF fs[BackupPath] = NoFile THEN Octal(6, 4, 4)
                             ELSE fs[BackupPath].mode)]
    /\ UNCHANGED <<args, fs0, self, pos, run, prev>>

\* flash_paramters = UpdateFlashParameterFile(...)
Construct ==
    /\ pc = "init"
    /\ self' = NewObject(args)
    /\ pc' = "mkstemp"
    /\ UNCHANGED <<args, fs, fs0, pos, run, prev>>

\* fh, tempfile = mkstemp()
Mkstemp ==
    /\ pc = "mkstemp"
    /\ \/ /\ fs' = [fs EXCEPT ![TempPath] = File(<<>>, Octal(6, 0, 0))]
          /\ pc' = "open"
       \/ /\ fs' = fs                  \* OSError
          /\ pc' = "failed"
    /\ UNCHANGED <<args, fs0, self, pos, run, prev>>

\* ftemp = open(tempfile, 'w'); f = open(self.file_name, 'r')
OpenFiles ==
    /\ pc = "open"
    /\ fs' = [fs EXCEPT ![TempPath].content = <<>>]
    /\ IF fs[self.file_name] = NoFile
       THEN pc' = "failed" /\ pos' = pos
       ELSE pc' = "loop" /\ pos' = 0
    /\ UNCHANGED <<args, fs0, self, run, prev>>

\* one iteration of `for line in f`
ProcessLine ==
    /\ pc = "loop"
    /\ pos < Len(fs[self.file_name].content)
    /\ LET read == ReadLine(fs[self.file_name].content, pos)
           r    == RewriteLine(self, read.text)
       IN  /\ self' = r.self
           /\ pos' = pos + read.len
           /\ IF r.raised
              THEN /\ pc' = "failed"   \* ZeroDivisionError
                   /\ fs' = fs
              ELSE \/ \* ftemp.write(line): "\n" is written as os.linesep, "\n"
                      /\ fs' = [fs EXCEPT ![TempPath].content = @ \o r.line]
                      /\ pc' = "loop"
                   \/ /\ fs' = fs      \* OSError from ftemp.write
                      /\ pc' = "failed"
    /\ UNCHANGED <<args, fs0, run, prev>>

\* the loop ends; ftemp.close(); close(fh); f.close()
CloseFiles ==
    /\ pc = "loop"
    /\ pos >= Len(fs[self.file_name].content)
    /\ pc' = "remove"
    /\ UNCHANGED <<args, fs, fs0, self, pos, run, prev>>

\* remove(self.file_name)
Remove ==
    /\ pc = "remove"
    /\ \/ /\ fs' = [fs EXCEPT ![self.file_name] = NoFile]
          /\ pc' = "move"
       \/ /\ fs' = fs                  \* OSError
          /\ pc' = "failed"
    /\ UNCHANGED <<args, fs0, self, pos, run, prev>>

\* move(tempfile, self.file_name)
Move ==
    /\ pc = "move"
    /\ \/ /\ fs' = [fs EXCEPT ![self.file_name] = fs[TempPath],
                              ![TempPath] = NoFile]
          /\ pc' = "chmod"
       \/ /\ fs' = fs                  \* OSError
          /\ pc' = "failed"
    /\ UNCHANGED <<args, fs0, self, pos, run, prev>>

\* os.chmod(self.file_name, 644)
Chmod ==
    /\ pc = "chmod"
    /\ fs' = [fs EXCEPT ![self.file_name].mode = ChmodArg]
    /\ pc' = "done"
    /\ UNCHANGED <<args, fs0, self, pos, run, prev>>

Next ==
    \/ Copyfile
    \/ Construct
    \/ Mkstemp
    \/ OpenFiles
    \/ ProcessLine
    \/ CloseFiles
    \/ Remove
    \/ Move
    \/ Chmod

Spec == Init /\ [][Next]_vars

-----------------------------------------------------------------------------
(* The tool run again on the file it has rewritten *)

Rerun ==
    /\ pc = "done"
    /\ run < MaxRuns
    /\ \E a \in ArgSets :
          /\ a.file_name = args.file_name
          /\ args' = a
    /\ prev' = args
    /\ run' = run + 1
    /\ self' = NoObject
    /\ pos' = 0
    /\ pc' = "copyfile"
    /\ UNCHANGED <<fs, fs0>>

NextRerun == Next \/ Rerun

SpecRerun == Init /\ [][NextRerun]_vars

-----------------------------------------------------------------------------
(* The derivation alone: the two compute methods called on a fresh object *)

InitCompute ==
    /\ args \in ComputeArgSets
    /\ fs = [p \in Paths |-> NoFile]
    /\ fs0 = fs
    /\ self = NewObject(args)
    /\ pos = 0
    /\ pc = "compute"
    /\ run = 1
    /\ prev = NoArgs

CallComputeB0 ==
    /\ pc = "compute"
    /\ self.B0 = EmptyList
    /\ self' = compute_B0(self)
    /\ UNCHANGED <<args, fs, fs0, pos, pc, run, prev>>

CallComputeTurnover ==
    /\ pc = "compute"
    /\ self.tmax = EmptyList
    /\ LET c == compute_turnover_time_parameters(self)
       IN  /\ self' = c.self
           /\ pc' = IF c.raised THEN "failed" ELSE "compute"
    /\ UNCHANGED <<args, fs, fs0, pos, run, prev>>

NextCompute == CallComputeB0 \/ CallComputeTurnover

SpecCompute == InitCompute /\ [][NextCompute]_vars

-----------------------------------------------------------------------------
(* Vocabulary of the properties *)

StartsWith(l, key) == Len(l) >= Len(key) /\ SubSeq(l, 1, Len(key)) = key

EndsWith(l, tail) ==
    Len(l) >= Len(tail) /\ SubSeq(l, Len(l) - Len(tail) + 1, Len(l)) = tail

\* the keys in the order the replacers test them
KeyOrder ==
    << K_MagField_z, K_st_MPzBmeanTarget, K_movie_dt_dump,
       K_checkpointFileIntervalTime, K_plotFileIntervalTime,
       K_particleFileIntervalTime, K_dtmax, K_tmax, K_st_infilename >>

\* the text that stands for the j-th key
KeyText(j, s) ==
    CASE j \in {1, 2} -> FloatStr(s.B0)
      [] j = 3 -> FloatStr(s.movie_dt_dump)
      [] j = 4 -> FloatStr(s.checkpointFileIntervalTime)
      [] j = 5 -> FloatStr(s.plotFileIntervalTime)
      [] j = 6 -> FloatStr(s.particleFileIntervalTime)
      [] j = 7 -> FloatStr(s.dtmax)
      [] j = 8 -> FloatStr(s.tmax)
      [] j = 9 -> s.forcing_file.s

\* the keys a line starts with; st_infilename counts only with a forcing file
Matched(l, forcing) ==
    { j \in 1..9 : StartsWith(l, KeyOrder[j]) /\ (j = 9 => forcing # None) }

IsTarget(l, forcing) == Matched(l, forcing) # {}

HasEq(l) == \E j \in 1..Len(l) : l[j] = "="

FirstEq(l) == Min({ j \in 1..Len(l) : l[j] = "=" })

RECURSIVE RStrip(_)
RStrip(l) ==
    IF l # <<>> /\ l[Len(l)] \in {" ", "\t"}
    THEN RStrip(SubSeq(l, 1, Len(l) - 1))
    ELSE l

\* the text before the first '=', without the blanks that end it
KeyToken(l) == RStrip(SubSeq(l, 1, FirstEq(l) - 1))

AllKeys == { KeyOrder[j] : j \in 1..9 }

Valid(a) == a.mach.n > 0 /\ a.mach_alfven.n > 0

BackupOf(name) ==
    IF name = "flash.par" THEN "flash.par_restart_backup"
    ELSE "other.par_restart_backup"

\* the first invocation has finished
Done1 == pc = "done" /\ run = 1

\* the lines of the original and of the target as the program reads them
InLines == SplitLines(fs0[args.file_name].content)
OutLines == SplitLines(fs[args.file_name].content)

\* the lines of a file as stored: each up to and including its "\n"
RECURSIVE RawLinesFrom(_, _)
RawLinesFrom(content, p) ==
    IF p >= Len(content) THEN <<>>
    ELSE LET nl == { i \in (p + 1)..Len(content) : content[i] = "\n" }
             e  == IF nl = {} THEN Len(content) ELSE Min(nl)
         IN  <<SubSeq(content, p + 1, e)>> \o RawLinesFrom(content, e)

RawIn == RawLinesFrom(fs0[args.file_name].content, 0)
RawOut == RawLinesFrom(fs[args.file_name].content, 0)

\* the rewrite pass as a function of the content and the command line
RECURSIVE RewriteLines(_, _)
RewriteLines(ls, a) ==
    IF ls = <<>> THEN <<>>
    ELSE RewriteLine(NewObject(a), Head(ls)).line \o RewriteLines(Tail(ls), a)

RewritePass(content, a) == RewriteLines(SplitLines(content), a)

-----------------------------------------------------------------------------
(* The properties *)

\* C1 as stated, for valid command lines: the rewritten file has as many
\* lines as the original, in the same order, and every line that starts with
\* none of the eight numeric keys (and, without a forcing file, every
\* st_infilename line) is the original line byte for byte, line ending
\* included.
C1_NonTargetsUntouched ==
    (Done1 /\ Valid(args)) =>
        /\ Len(RawOut) = Len(RawIn)
        /\ \A i \in 1..Len(RawIn) :
              ~IsTarget(RawIn[i], args.forcing_file)
                  => RawOut[i] = RawIn[i]

\* C2 as stated, for valid command lines: every line that begins with a key
\* is rewritten to its text up to and including its first '=', a space, the
\* new value and a newline.
C2_PrefixThroughEq ==
    (Done1 /\ Valid(args)) =>
        \A i \in 1..Len(InLines) :
            IsTarget(InLines[i], args.forcing_file) =>
                /\ HasEq(InLines[i])
                /\ OutLines[i] =
                      SubSeq(InLines[i], 1, FirstEq(InLines[i]))
                      \o <<" ">>
                      \o KeyText(Min(Matched(InLines[i], args.forcing_file)), self)
                      \o <<"\n">>

\* C3 as stated, for valid command lines and the lines that have a '=': a
\* line whose key token is not one of the nine keys is left as it was.
C3_ExactKeyOnly ==
    (Done1 /\ Valid(args)) =>
        \A i \in 1..Len(InLines) :
            (HasEq(InLines[i]) /\ KeyToken(InLines[i]) \notin AllKeys)
                => OutLines[i] = InLines[i]

\* C4 as stated, for valid command lines: after a failed run the target path
\* holds the original file, content and mode.
C4_FailureKeepsOriginal ==
    (pc = "failed" /\ Valid(args)) => fs[args.file_name] = fs0[args.file_name]

\* C5 as stated: with mach or machAlfven not strictly positive no file is
\* written, created, removed or replaced, and the run does not succeed.
C5_InvalidRejectedBeforeIO ==
    ~Valid(args) => (fs = fs0 /\ pc # "done")

\* C6 as stated, for valid command lines: once the target differs from the
\* original, the original's content is at <file_name>_restart_backup.
C6_BackupAtOriginalName ==
    (run = 1 /\ Valid(args) /\ fs[args.file_name] # fs0[args.file_name]) =>
        /\ fs[BackupOf(args.file_name)] # NoFile
        /\ fs[BackupOf(args.file_name)].content = fs0[args.file_name].content

\* C7 as stated, for valid command lines: after a successful run the target's
\* mode is rw-r--r--.
C7_ModeIs644 ==
    (pc = "done" /\ Valid(args)) => fs[args.file_name].mode = Octal(6, 4, 4)

\* C8: for strictly positive inputs the derived quantities are
\* tmax = T/(d*mach), checkpoint = tmax/(T*n), plot = checkpoint,
\* movie = plot/10, particle = movie, dtmax = movie/2, all strictly
\* positive; mach=10, d=2, T=10, n=10 gives 1/2, 1/200, 1/200, 1/2000,
\* 1/2000, 1/4000.  The equations are stated by cross-multiplication.
C8_TurnoverFormulas ==
    LET m   == self.mach
        d   == self.driving_scale
        T   == self.total_turn_overs
        n   == self.dumps_per_turnover
        t   == self.tmax
        chk == self.checkpointFileIntervalTime
        plt == self.plotFileIntervalTime
        mov == self.movie_dt_dump
        par == self.particleFileIntervalTime
        dt  == self.dtmax
    IN  (/\ pc = "compute"
         /\ self.tmax # EmptyList
         /\ m.n > 0 /\ d.n > 0 /\ T.n > 0 /\ n.n > 0)
        =>
        /\ t.n * d.n * m.n * T.d = T.n * d.d * m.d * t.d
        /\ chk.n * T.n * n.n * t.d = t.n * T.d * n.d * chk.d
        /\ plt = chk
        /\ mov.n * 10 * plt.d = plt.n * mov.d
        /\ par = mov
        /\ dt.n * 2 * mov.d = mov.n * dt.d
        /\ \A x \in {t, chk, plt, mov, par, dt} : IsNum(x) /\ x.n > 0 /\ x.d > 0
        /\ (m = Rat(10, 1) /\ d = Rat(2, 1) /\ T = Rat(10, 1) /\ n = Rat(10, 1))
              => /\ t = Rat(1, 2)
                 /\ chk = Rat(1, 200) /\ plt = Rat(1, 200)
                 /\ mov = Rat(1, 2000) /\ par = Rat(1, 2000)
                 /\ dt = Rat(1, 4000)

\* the example's inputs, with the derived quantities computed
C8_Witness ==
    /\ pc = "compute"
    /\ self.mach = Rat(10, 1) /\ self.driving_scale = Rat(2, 1)
    /\ self.total_turn_overs = Rat(10, 1) /\ self.dumps_per_turnover = Rat(10, 1)
    /\ self.dtmax = Rat(1, 4000)

\* C9: every line gets at most one substitution, with the value of the first
\* key it matches in the order MagField_z, st_MPzBmeanTarget, movie_dt_dump,
\* checkpointFileIntervalTime, plotFileIntervalTime, particleFileIntervalTime,
\* dtmax, tmax, st_infilename; a line starting with dtmax ends in the dtmax
\* value, not the tmax value.
C9_FirstMatchOnce ==
    Done1 =>
        \A i \in 1..Len(InLines) :
            LET l  == InLines[i]
                ks == Matched(l, args.forcing_file)
            IN  /\ OutLines[i] =
                      IF ks = {} THEN l
                      ELSE Substitute(l, KeyText(Min(ks), self))
                /\ StartsWith(l, K_dtmax) =>
                      /\ EndsWith(OutLines[i],
                                  <<" ">> \o FloatStr(self.dtmax) \o <<"\n">>)
                      /\ ~EndsWith(OutLines[i],
                                   <<" ">> \o FloatStr(self.tmax) \o <<"\n">>)

\* a finished run over a file with a dtmax line, rewritten
C9_Witness ==
    /\ Done1
    /\ \E i \in 1..Len(InLines) :
          /\ StartsWith(InLines[i], K_dtmax)
          /\ OutLines[i] # InLines[i]
          /\ self.dtmax # self.tmax

\* C10 as stated: a run with P1 and then a run with P2, both valid and alike
\* in having a forcing file, leave the content one run with P2 leaves.
C10_LastRunWins ==
    (/\ pc = "done" /\ run = 2
     /\ Valid(prev) /\ Valid(args)
     /\ (prev.forcing_file = None) = (args.forcing_file = None))
    => fs[args.file_name].content = RewritePass(fs0[args.file_name].content, args)

=============================================================================
